---- MODULE Spec2Model ----
(***************************************************************************)
(* Stock-Scaner: validators, merger and filter/scoring pipeline.           *)
(*                                                                         *)
(* Representation of Python values                                         *)
(*   - a quote record (dict) is a TLA+ record; a key the dict lacks is a   *)
(*     field the record lacks (Get gives dict.get)                         *)
(*   - numeric fields hold integers (prices in rupees, volume, OI)         *)
(*   - 'symbol' holds a tagged value, PyStr(s) or PyNum(n), because the    *)
(*     validators test isinstance(value, (int, float)) on it               *)
(*   - 'source' is a string; TLC evaluates Len, SubSeq and \o on strings   *)
(*   - a percentage computed by float division is the exact rational       *)
(*     [n, d] (d > 0); a value produced by round(x, 2) is the integer      *)
(*     number of hundredths                                                *)
(*   - a value of another Python type under a numeric key is named in the  *)
(*     record's py_type field: "str" is the text of a number (the field    *)
(*     holds the number float() or int() reads from it), "text" any other  *)
(*     string and "None" the None object (the field holds 0, never read)   *)
(***************************************************************************)
EXTENDS Integers, Sequences, FiniteSets, TLC

VARIABLES
    op,               \* the method the harness calls
    pc,               \* "call" before the method ran, "done" after
    stock_data,       \* list argument: filter_stocks, _merge_duplicate_stocks, <<existing, new>> of _merge_stock_data
    stock,            \* dict argument: the validators, _calculate_filter_score
    gap_up_pct,       \* argument of _calculate_filter_score
    change_pct,       \* argument of _calculate_filter_score
    filtered_stocks,  \* FilterAgent.filtered_stocks
    returned,         \* list returned by filter_stocks / _merge_duplicate_stocks / <<dict>> of _merge_stock_data
    valid,            \* bool returned by a validator
    filter_score,     \* hundredths returned by _calculate_filter_score
    cookies_established,  \* RobustNSEScraper.cookies_established
    last_session_time,    \* RobustNSEScraper.last_session_time, in seconds
    clock,                \* time.time(), in seconds
    nse_initialized,      \* NSEClient.nse_initialized
    session_pc,           \* the scraper-facing step of the scan cycle that runs next
    session_log,          \* this cycle's _establish_robust_session results and data requests, in order
    last_establish,       \* the latest _establish_robust_session call: state before it, result, requests
    nse_data,             \* list returned by get_stock_data_robust in this cycle
    symbols,              \* the universe: the list handed to fetch_stock_data_parallel
    fyers_configured,     \* FyersClient has both app_id and access_token
    market,               \* what the remote services have: nsetools, yfinance (symbols), sprouts (records)
    fault,                \* the source attempt that fails unexpectedly in this cycle, and how
    cycle_pc,             \* the step of get_all_data that runs next
    task_state,           \* per future: "queued", "running" or "done"
    all_stock_data,       \* all_stock_data of fetch_stock_data_parallel
    asked,                \* per source, the symbols it was requested for in this cycle
    failed_symbols,       \* EnhancedYFinanceClient.failed_symbols
    errors,               \* the sources DataAgent logged an error for
    self_stock_data,      \* DataAgent.stock_data
    all_data              \* the dict get_all_data returns

harness_vars ==
    <<op, pc, stock_data, stock, gap_up_pct, change_pct, filtered_stocks, returned, valid, filter_score>>

session_vars ==
    <<cookies_established, last_session_time, clock, nse_initialized, session_pc, session_log,
      last_establish, nse_data>>

cycle_vars ==
    <<symbols, fyers_configured, market, fault, cycle_pc, task_state, all_stock_data, asked,
      failed_symbols, errors, self_stock_data, all_data>>

vars == <<harness_vars, session_vars, cycle_vars>>

----------------------------------------------------------------------------
(* Python values and builtins *)

PyStr(s) == [str |-> s]
PyNum(n) == [num |-> n]
IsNumber(v) == "num" \in DOMAIN v

\* dict.get(key, default)
Get(d, key, default) == IF key \in DOMAIN d THEN d[key] ELSE default

Min(a, b) == IF a <= b THEN a ELSE b
Abs(a) == IF a < 0 THEN -a ELSE a

LowerChar(c) ==
    CASE c = "A" -> "a" [] c = "B" -> "b" [] c = "C" -> "c" [] c = "D" -> "d"
      [] c = "E" -> "e" [] c = "F" -> "f" [] c = "G" -> "g" [] c = "H" -> "h"
      [] c = "I" -> "i" [] c = "J" -> "j" [] c = "K" -> "k" [] c = "L" -> "l"
      [] c = "M" -> "m" [] c = "N" -> "n" [] c = "O" -> "o" [] c = "P" -> "p"
      [] c = "Q" -> "q" [] c = "R" -> "r" [] c = "S" -> "s" [] c = "T" -> "t"
      [] c = "U" -> "u" [] c = "V" -> "v" [] c = "W" -> "w" [] c = "X" -> "x"
      [] c = "Y" -> "y" [] c = "Z" -> "z" [] OTHER -> c

\* str.lower()
RECURSIVE Lower(_)
Lower(s) ==
    IF Len(s) = 0 THEN ""
    ELSE LowerChar(SubSeq(s, 1, 1)) \o Lower(SubSeq(s, 2, Len(s)))

\* sub in s
Contains(s, sub) ==
    \E i \in 1..(Len(s) - Len(sub) + 1) : SubSeq(s, i, i + Len(sub) - 1) = sub

\* s.split(','): "" gives [''], "a,,b" gives ['a', '', 'b']
RECURSIVE SplitFrom(_, _, _)
SplitFrom(s, start, i) ==
    IF i > Len(s) THEN <<SubSeq(s, start, Len(s))>>
    ELSE IF SubSeq(s, i, i) = ","
         THEN <<SubSeq(s, start, i - 1)>> \o SplitFrom(s, i + 1, i + 1)
         ELSE SplitFrom(s, start, i + 1)

Split(s) == SplitFrom(s, 1, 1)

\* s.strip(',')
RECURSIVE Strip(_)
Strip(s) ==
    IF Len(s) = 0 THEN s
    ELSE IF SubSeq(s, 1, 1) = "," THEN Strip(SubSeq(s, 2, Len(s)))
    ELSE IF SubSeq(s, Len(s), Len(s)) = "," THEN Strip(SubSeq(s, 1, Len(s) - 1))
    ELSE s

\* value in list
InList(value, list) == \E i \in 1..Len(list) : list[i] = value

----------------------------------------------------------------------------
(* Rationals for float percentages; d > 0 *)

Rat(n, d) == [n |-> n, d |-> d]

\* round(n/d, 2) in hundredths, ties to even
Round2(n, d) ==
    LET q == (100 * n) \div d
        r == (100 * n) % d
    IN  IF 2 * r < d THEN q
        ELSE IF 2 * r > d THEN q + 1
        ELSE IF q % 2 = 0 THEN q ELSE q + 1

----------------------------------------------------------------------------
(* Validators *)

\* d[key] is present and is neither an int nor a float
NonNumeric(d, key) ==
    key \in DOMAIN d /\ "py_type" \in DOMAIN d /\ key \in DOMAIN d.py_type

\* float(d.get(key, 0)) or int(d.get(key, 0)) raises for one of the keys
ConversionRaises(d, keys) ==
    \E key \in keys : NonNumeric(d, key) /\ d.py_type[key] \in {"text", "None"}

\* d.get(key, 0) > n raises TypeError for one of the keys
ComparisonRaises(d, keys) == \E key \in keys : NonNumeric(d, key)

\* value = d.get(field, 0); isinstance(value, (int, float)) and value > 0
PositiveNumber(d, field) ==
    IF field \notin DOMAIN d THEN FALSE
    ELSE IF field = "symbol" THEN IsNumber(d.symbol) /\ d.symbol.num > 0
    ELSE IF NonNumeric(d, field) THEN FALSE
    ELSE d[field] > 0

\* SyntheticSource without the .lower() of line 181
SyntheticSource_CaseSensitive(d) ==
    LET source == Get(d, "source", "")
    IN  Contains(source, "synthetic") \/ Contains(source, "fake") \/ Contains(source, "generated")

\* the source tag names synthetic, fake or generated data
SyntheticSource(d) ==
    LET source == Lower(Get(d, "source", ""))
    IN  Contains(source, "synthetic") \/ Contains(source, "fake") \/ Contains(source, "generated")

\* FilterAgent._validate_real_stock_data
FilterValidate(d) ==
    /\ \A field \in {"symbol", "open_price", "ltp", "prev_close"} : PositiveNumber(d, field)
    /\ ~SyntheticSource(d)
    /\ 5 <= d.ltp /\ d.ltp <= 100000
    /\ 5 <= d.prev_close /\ d.prev_close <= 100000
    /\ 3 * d.prev_close <= 10 * d.ltp /\ d.ltp <= 3 * d.prev_close

\* RobustNSEScraper._validate_real_stock_data
NSEValidate(d) ==
    /\ \A field \in {"symbol", "ltp", "prev_close"} : PositiveNumber(d, field)
    /\ 1 <= d.ltp /\ d.ltp <= 100000
    /\ ~(2 * Abs(d.ltp - d.prev_close) > d.prev_close)

\* FyersClient._validate_stock_data
FyersValidate(d) ==
    /\ \A field \in {"open_price", "ltp", "prev_close"} : PositiveNumber(d, field)
    /\ ~(d.ltp > d.prev_close * 3)

----------------------------------------------------------------------------
(* FilterAgent: scoring and quality *)

\* settings.MIN_PERCENTAGE_INCREASE, in percent
MIN_PERCENTAGE_INCREASE == 7

\* GapScore without the cap of line 248
GapScore_Uncapped(gap) == Rat(2 * gap.n, gap.d)

\* score += min(gap_up_pct * 2, 40)
GapScore(gap) == Rat(Min(2 * gap.n, 40 * gap.d), gap.d)

\* score += min(change_pct * 2, 40)
MomentumScore(change) == Rat(Min(2 * change.n, 40 * change.d), change.d)

\* VolumeScore with the 5-point band starting at 1000 instead of 10000
VolumeScore_Shifted(d) ==
    LET volume == Get(d, "volume", 0)
    IN  IF volume > 100000 THEN 10
        ELSE IF volume > 50000 THEN 7
        ELSE IF volume > 1000 THEN 5
        ELSE 0

\* the stepped volume points
VolumeScore(d) ==
    LET volume == Get(d, "volume", 0)
    IN  IF volume > 100000 THEN 10
        ELSE IF volume > 50000 THEN 7
        ELSE IF volume > 10000 THEN 5
        ELSE IF volume > 1000 THEN 2
        ELSE 0

\* the open-interest points
OIScore(d) == IF Get(d, "total_oi", 0) > 0 THEN 10 ELSE 0

\* FilterAgent._calculate_filter_score: round(score, 2), in hundredths;
\* 0.0 from the except branch when a comparison of volume or total_oi raises
CalculateFilterScore(d, gap, change) ==
    IF ComparisonRaises(d, {"volume", "total_oi"}) THEN 0
    ELSE LET g == GapScore(gap)
             m == MomentumScore(change)
             k == VolumeScore(d) + OIScore(d)
         IN  Round2(g.n * m.d + m.n * g.d + k * g.d * m.d, g.d * m.d)

\* AssessDataQuality with the FAIR cut point of line 234 at 5 instead of 4
AssessDataQuality_FairFrom5(d) ==
    LET source == Lower(Get(d, "source", ""))
        quality_score ==
            (IF Contains(source, "nse") THEN 3
             ELSE IF Contains(source, "yfinance") THEN 2
             ELSE 1)
            + (IF Get(d, "prev_day_high", 0) > 0 THEN 2 ELSE 0)
            + (IF Get(d, "volume", 0) > 1000 THEN 1 ELSE 0)
            + (IF Get(d, "total_oi", 0) > 0 THEN 2 ELSE 0)
            + (IF Contains(source, "real") THEN 2 ELSE 0)
    IN  IF quality_score >= 8 THEN "EXCELLENT"
        ELSE IF quality_score >= 6 THEN "GOOD"
        ELSE IF quality_score >= 5 THEN "FAIR"
        ELSE "POOR"

\* FilterAgent._assess_data_quality; the except branch ("UNKNOWN") is taken
\* only for a non-numeric prev_day_high, volume or total_oi, which no source
\* client builds (each uses float(), int() or a literal 0)
AssessDataQuality(d) ==
    IF ComparisonRaises(d, {"prev_day_high", "volume", "total_oi"}) THEN "UNKNOWN"
    ELSE
    LET source == Lower(Get(d, "source", ""))
        quality_score ==
            (IF Contains(source, "nse") THEN 3
             ELSE IF Contains(source, "yfinance") THEN 2
             ELSE 1)
            + (IF Get(d, "prev_day_high", 0) > 0 THEN 2 ELSE 0)
            + (IF Get(d, "volume", 0) > 1000 THEN 1 ELSE 0)
            + (IF Get(d, "total_oi", 0) > 0 THEN 2 ELSE 0)
            + (IF Contains(source, "real") THEN 2 ELSE 0)
    IN  IF quality_score >= 8 THEN "EXCELLENT"
        ELSE IF quality_score >= 6 THEN "GOOD"
        ELSE IF quality_score >= 4 THEN "FAIR"
        ELSE "POOR"

\* FilterAgent._get_current_timestamp: the wall clock is not modelled
CurrentTimestamp == "now"

----------------------------------------------------------------------------
(* FilterAgent.filter_stocks, one validated record at a time *)

\* prev_day_high, or prev_close when prev_day_high <= 0
EffectivePrevDayHigh(d) ==
    IF Get(d, "prev_day_high", 0) <= 0 THEN Get(d, "prev_close", 0)
    ELSE d.prev_day_high

\* NoPrevDayHigh without the prev_close fallback of lines 52-54
NoPrevDayHigh_Reject(d) == Get(d, "prev_day_high", 0) <= 0

\* the record is dropped before the gate: no previous-day high and no prev_close
NoPrevDayHigh(d) ==
    Get(d, "prev_day_high", 0) <= 0 /\ ~(Get(d, "prev_close", 0) > 0)

\* ((open_price - prev_day_high) / prev_day_high) * 100
GapUpPercentage(d) ==
    LET high == EffectivePrevDayHigh(d)
    IN  Rat((Get(d, "open_price", 0) - high) * 100, high)

\* ((ltp - prev_close) / prev_close) * 100
PercentageChange(d) ==
    Rat((Get(d, "ltp", 0) - d.prev_close) * 100, d.prev_close)

\* PassesGate with volume >= 1000 for volume > 1000 at line 74
PassesGate_VolumeAtLeast(d) ==
    LET gap == GapUpPercentage(d)
        change == PercentageChange(d)
        volume == Get(d, "volume", 0)
        ltp == Get(d, "ltp", 0)
    IN  /\ Get(d, "open_price", 0) > EffectivePrevDayHigh(d)
        /\ change.n >= MIN_PERCENTAGE_INCREASE * change.d
        /\ volume >= 1000
        /\ 10 <= ltp /\ ltp <= 50000
        /\ gap.d <= 10 * gap.n /\ gap.n <= 25 * gap.d
        /\ -50 * change.d <= change.n /\ change.n <= 100 * change.d

\* the six conditions of the gate
PassesGate(d) ==
    LET gap == GapUpPercentage(d)
        change == PercentageChange(d)
        volume == Get(d, "volume", 0)
        ltp == Get(d, "ltp", 0)
    IN  /\ Get(d, "open_price", 0) > EffectivePrevDayHigh(d)
        /\ change.n >= MIN_PERCENTAGE_INCREASE * change.d
        /\ volume > 1000
        /\ 10 <= ltp /\ ltp <= 50000
        /\ gap.d <= 10 * gap.n /\ gap.n <= 25 * gap.d
        /\ -50 * change.d <= change.n /\ change.n <= 100 * change.d

\* stock.copy() updated with the derived fields
FilteredStock(d) ==
    LET gap == GapUpPercentage(d)
        change == PercentageChange(d)
        open_price == Get(d, "open_price", 0)
        ltp == Get(d, "ltp", 0)
    IN  [percentage_change |-> Round2(change.n, change.d),
         gap_up_percentage |-> Round2(gap.n, gap.d),
         day_change |-> ltp - open_price,
         day_change_percentage |->
             IF open_price > 0 THEN Round2((ltp - open_price) * 100, open_price) ELSE 0,
         gap_up_condition |-> TRUE,
         momentum_condition |-> TRUE,
         filter_timestamp |-> CurrentTimestamp,
         data_quality |-> AssessDataQuality(d),
         filter_score |-> CalculateFilterScore(d, gap, change)] @@ d

\* the body of the loop over valid_stocks: the records appended for one stock;
\* a conversion of lines 43-47 that raises is caught at line 142
FilterOne(d) ==
    IF ConversionRaises(d, {"open_price", "ltp", "prev_close", "prev_day_high", "volume"}) THEN <<>>
    ELSE IF NoPrevDayHigh(d) THEN <<>>
    ELSE IF ~(Get(d, "prev_close", 0) > 0) THEN <<>>
    ELSE IF PassesGate(d) THEN <<FilteredStock(d)>>
    ELSE <<>>

\* FilterAgent.filter_stocks: the list it returns
RECURSIVE FilterStocks(_)
FilterStocks(list) ==
    IF Len(list) = 0 THEN <<>>
    ELSE (IF FilterValidate(Head(list)) THEN FilterOne(Head(list)) ELSE <<>>)
         \o FilterStocks(Tail(list))

----------------------------------------------------------------------------
(* LoggerAgent: the signals written to the signals table *)

\* signal_data of log_signals: the keys it reads from the record it is handed;
\* percentage_change is held in hundredths of a percent, as in FilteredStock
SignalData(d) ==
    [symbol |-> Get(d, "symbol", PyStr("")),
     open_price |-> Get(d, "open", 0),
     ltp |-> Get(d, "close", 0),
     prev_close |-> Get(d, "prev_close", 0),
     prev_day_high |-> Get(d, "prev_high", 0),
     percentage_change |-> Get(d, "oi_change_pct", 0),
     volume |-> Get(d, "volume", 0),
     market_cap |-> Get(d, "market_cap", 0),
     source |-> Get(d, "source", "unknown")]

\* LoggerAgent._validate_signal_data
ValidateSignalData(signal) ==
    /\ ~IsNumber(signal.symbol) /\ signal.symbol.str # ""
    /\ \A field \in {"open_price", "ltp", "prev_close", "percentage_change"} : signal[field] >= 0
    /\ ~(signal.percentage_change < MIN_PERCENTAGE_INCREASE * 100)

\* LoggerAgent.log_signals: the rows of the signals table after the call
\* (clear_all_signals, then one insert_signal per valid signal)
RECURSIVE LogSignals(_)
LogSignals(list) ==
    IF Len(list) = 0 THEN <<>>
    ELSE (IF ValidateSignalData(SignalData(Head(list))) THEN <<SignalData(Head(list))>> ELSE <<>>)
         \o LogSignals(Tail(list))

----------------------------------------------------------------------------
(* Mergers *)

\* isinstance(value, (int, float)) for the value of a key
NumericValue(key, value) ==
    IF key = "symbol" THEN IsNumber(value)
    ELSE IF key = "source" THEN FALSE
    ELSE TRUE

\* bool(value) for the value of a key
Truthy(key, value) ==
    IF key = "symbol" THEN (IF IsNumber(value) THEN value.num # 0 ELSE Len(value.str) > 0)
    ELSE IF key = "source" THEN Len(value) > 0
    ELSE value # 0

\* bool(existing.get(key))
TruthyGet(d, key) == key \in DOMAIN d /\ Truthy(key, d[key])

\* MergeAssigns without the "and value != 0" of line 147
MergeAssigns_ZeroOverwrites(existing, key, value) ==
    IF key = "source" THEN ~InList(value, Split(Get(existing, "source", "")))
    ELSE IF NumericValue(key, value) THEN TRUE
    ELSE ~TruthyGet(existing, key) /\ Truthy(key, value)

\* the branch of the merge loop taken for a key assigns existing[key]
MergeAssigns(existing, key, value) ==
    IF key = "source" THEN ~InList(value, Split(Get(existing, "source", "")))
    ELSE IF NumericValue(key, value) /\ Truthy(key, value) THEN TRUE
    ELSE ~TruthyGet(existing, key) /\ Truthy(key, value)

\* DataAgentMergedValue with the source overwritten instead of appended
DataAgentMergedValue_Overwrite(existing, key, value) == value

\* DataAgent._merge_duplicate_stocks, lines 141-153: the value a key is assigned
DataAgentMergedValue(existing, key, value) ==
    IF key = "source" THEN existing.source \o "," \o value
    ELSE value

\* NSESproutsClient._merge_stock_data, lines 552-562: the value a key is assigned
SproutsMergedValue(existing, key, value) ==
    IF key = "source" THEN Strip(Get(existing, "source", "") \o "," \o value)
    ELSE value

\* DataAgent._merge_duplicate_stocks: the loop over stock.items() on an existing record
DataAgentMerge(existing, incoming) ==
    LET assigned == {k \in DOMAIN incoming : MergeAssigns(existing, k, incoming[k])}
    IN  [k \in (DOMAIN existing) \cup assigned |->
            IF k \in assigned THEN DataAgentMergedValue(existing, k, incoming[k])
            ELSE existing[k]]

\* NSESproutsClient._merge_stock_data
MergeStockData(existing, new) ==
    LET assigned == {k \in DOMAIN new : MergeAssigns(existing, k, new[k])}
    IN  [k \in (DOMAIN existing) \cup assigned |->
            IF k \in assigned THEN SproutsMergedValue(existing, k, new[k])
            ELSE existing[k]]

\* index of the record of a symbol in the insertion-ordered dict, 0 when absent
IndexOfSymbol(merged, symbol) ==
    IF \E i \in 1..Len(merged) : merged[i].symbol = symbol
    THEN CHOOSE i \in 1..Len(merged) : merged[i].symbol = symbol
    ELSE 0

\* DataAgent._merge_duplicate_stocks: list(merged.values()) after the first n records
RECURSIVE MergeDuplicateStocksUpTo(_, _)
MergeDuplicateStocksUpTo(list, n) ==
    IF n = 0 THEN <<>>
    ELSE LET merged == MergeDuplicateStocksUpTo(list, n - 1)
             i == IndexOfSymbol(merged, list[n].symbol)
         IN  IF i = 0 THEN Append(merged, list[n])
             ELSE [merged EXCEPT ![i] = DataAgentMerge(merged[i], list[n])]

\* FirstOccurrences without the "symbol not in merged" test of line 135
FirstOccurrences_EveryRecord(list) == [k \in 1..Len(list) |-> k]

\* the positions at which a symbol occurs for the first time: the keys of
\* merged, in insertion order
FirstOccurrences(list) ==
    LET first == {i \in 1..Len(list) : \A j \in 1..(i - 1) : list[j].symbol # list[i].symbol}
    IN  [k \in 1..Cardinality(first) |->
            CHOOSE i \in first : Cardinality({j \in first : j <= i}) = k]

\* DataAgent._merge_duplicate_stocks: list(merged.values()). The entry of a
\* symbol is touched by the records of that symbol only, so it is the loop
\* run over those records, in list order.
MergeDuplicateStocks(list) ==
    LET firsts == FirstOccurrences(list)
    IN  [k \in 1..Len(firsts) |->
            LET SameSymbolAs(d) == d.symbol = list[firsts[k]].symbol
                group == SelectSeq(list, SameSymbolAs)
            IN  MergeDuplicateStocksUpTo(group, Len(group))[1]]

----------------------------------------------------------------------------
(* Inputs *)

\* longest list handed to filter_stocks
MaxStocks == 2
\* longest list handed to _merge_duplicate_stocks
MaxDuplicates == 3

Quote(symbol, open_price, ltp, prev_close, prev_day_high, volume, total_oi, source) ==
    [symbol |-> symbol, open_price |-> open_price, ltp |-> ltp, prev_close |-> prev_close,
     prev_day_high |-> prev_day_high, volume |-> volume, total_oi |-> total_oi,
     source |-> source]

\* Scenario 1 of the specification: the record names no source
Scenario1 ==
    [symbol |-> PyStr("ABC"), open_price |-> 110, ltp |-> 112, prev_close |-> 100,
     prev_day_high |-> 105, volume |-> 5000, total_oi |-> 0]

SourceTags ==
    {"nse_quote_equity_real", "yfinance_real", "fyers", "synthetic_fill", "fyers,GENERATED"}

\* records handed to filter_stocks one at a time
FilterRecords ==
    { Quote(sym, o, l, 100, h, v, oi, src) :
        sym \in {PyStr("ABC"), PyNum(1)}, o \in {100, 108, 110, 126}, l \in {106, 112, 200},
        h \in {0, 105}, v \in {1000, 5000, 200000}, oi \in {0, 5000}, src \in SourceTags }

\* records handed to filter_stocks in longer lists
FilterListRecords ==
    { Quote(sym, 110, l, 100, 105, 5000, 0, src) :
        sym \in {PyStr("ABC"), PyNum(1)}, l \in {106, 112},
        src \in {"nse_quote_equity_real", "fyers,GENERATED"} }

FilterInputs ==
    {<<>>} \cup { <<r>> : r \in FilterRecords }
           \cup { <<Scenario1>>, <<[Scenario1 EXCEPT !.symbol = PyNum(1)]>> }
           \cup UNION { [1..n -> FilterListRecords] : n \in 2..MaxStocks }

\* records handed to the mergers
MergeRecords ==
    { [symbol |-> PyStr(sym), total_oi |-> oi, source |-> src] :
        sym \in {"XYZ", "ABC"}, oi \in {0, 5000, 7000},
        src \in {"scrapeA", "toolkitB", "scrapeA,toolkitB"} }
    \cup { [symbol |-> PyStr("XYZ"), volume |-> 5000, source |-> "toolkitB"],
           [symbol |-> PyStr("XYZ"), total_oi |-> 0, volume |-> 0, source |-> "scrapeA"] }

MergeInputs == UNION { [1..n -> MergeRecords] : n \in 0..MaxDuplicates }

\* records handed to the validators
ValidatorRecords ==
    { [symbol |-> sym, open_price |-> o, ltp |-> l, prev_close |-> c, source |-> src] :
        sym \in {PyStr("ABC"), PyNum(1)}, o \in {0, 150},
        l \in {0, 40, 149, 150, 151, 200, 400}, c \in {0, 100},
        src \in {"nse_quote_equity_real", "synthetic_fill"} }

\* arguments of _calculate_filter_score
ScoreRecords ==
    { [volume |-> v, total_oi |-> oi] :
        v \in {1000, 1001, 10000, 10001, 50000, 50001, 100000, 100001}, oi \in {0, 5000} }
    \cup {Scenario1}

Percentages ==
    { Rat(-50, 1), Rat(0, 1), Rat(500, 105), Rat(7, 1), Rat(12, 1), Rat(20, 1),
      Rat(25, 1), Rat(100, 1) }

\* a record of filter_buy_sell_signals, with oi_change_pct in hundredths
BuySellSignal(oi_change_pct) ==
    [symbol |-> PyStr("ABC"), open |-> 110, close |-> 112, prev_close |-> 100, prev_high |-> 105,
     prev_low |-> 95, oi_change_pct |-> oi_change_pct, volume |-> 5000, signal |-> "BUY"]

\* records handed to log_signals: Filtered Candidates and buy/sell signals
LogRecords ==
    { FilteredStock(Quote(sym, 110, 112, 100, 105, 5000, 0, "nse_quote_equity_real")) :
        sym \in {PyStr("ABC"), PyNum(1)} }
    \cup { BuySellSignal(p) : p \in {500, 1200} }

LogInputs == UNION { [1..n -> LogRecords] : n \in 0..MaxStocks }

NoStock == [source |-> ""]
NoPercentage == Rat(0, 1)

Operations ==
    {"fyers_validate", "nse_validate", "filter_validate", "filter_stocks",
     "_merge_duplicate_stocks", "_merge_stock_data", "_calculate_filter_score", "log_signals"}

----------------------------------------------------------------------------
(* One acquisition cycle: the source clients *)

\* list[:n]
Take(list, n) == SubSeq(list, 1, Min(n, Len(list)))

\* [x for x in list if x not in found]
Without(list, found) == LET Missing(x) == x \notin found IN SelectSeq(list, Missing)

\* the values of a list
Range(list) == {list[i] : i \in 1..Len(list)}

\* [s['symbol'] for s in records]
SymbolsOf(records) == {records[i].symbol : i \in 1..Len(records)}

\* the head of _get_comprehensive_fo_list
FOList ==
    <<PyStr("RELIANCE"), PyStr("TCS"), PyStr("HDFCBANK"), PyStr("INFY"), PyStr("HINDUNILVR"),
      PyStr("ICICIBANK"), PyStr("KOTAKBANK"), PyStr("SBIN"), PyStr("BHARTIARTL"), PyStr("ITC"),
      PyStr("ASIANPAINT"), PyStr("LT"), PyStr("AXISBANK"), PyStr("MARUTI"), PyStr("SUNPHARMA"),
      PyStr("ULTRACEMCO"), PyStr("TITAN"), PyStr("WIPRO"), PyStr("POWERGRID"), PyStr("NTPC"),
      PyStr("TATAMOTORS"), PyStr("ONGC"), PyStr("HCLTECH"), PyStr("BAJFINANCE"), PyStr("M&M")>>

\* the record each source builds for a symbol it has a quote for
FyersQuote(symbol) == Quote(symbol, 110, 112, 100, 105, 5000, 5000, "fyers")
NSEToolsQuote(symbol) == Quote(symbol, 110, 112, 100, 105, 5000, 0, "nsetools_real")
YFinanceQuote(symbol) == Quote(symbol, 110, 113, 100, 105, 6000, 0, "yfinance_real")
SproutsQuote(symbol) == Quote(symbol, 112, 112, 100, 101, 5000, 0, "nse_preopen_comprehensive")
\* the pre-open record after _get_enhanced_stock_data obtained the historical
\* OHLC: prev_day_high is the previous day's traded high, the tag is unchanged
SproutsEnhancedQuote(symbol) == [SproutsQuote(symbol) EXCEPT !.prev_day_high = 105]
RobustQuote(symbol) == Quote(symbol, 110, 112, 100, 105, 5000, 0, "nse_quote_equity_real")

\* NSEClient._validate_real_stock_data
NSEToolsValidate(d) ==
    /\ \A field \in {"symbol", "open_price", "ltp", "prev_close"} : PositiveNumber(d, field)
    /\ 5 <= d.ltp /\ d.ltp <= 100000
    /\ ~(2 * Abs(d.ltp - d.prev_close) > d.prev_close)

\* EnhancedYFinanceClient._validate_yfinance_data
YFinanceValidate(d) ==
    /\ \A field \in {"ltp", "open_price", "prev_close", "prev_day_high"} : PositiveNumber(d, field)
    /\ 5 <= d.ltp /\ d.ltp <= 100000
    /\ ~(Get(d, "volume", 0) <= 0)
    /\ ~(2 * Abs(d.ltp - d.prev_close) > d.prev_close)

\* FyersGetStockData without the credentials test of lines 79-81
FyersGetStockData_NoCredentialsTest(chunk, configured) ==
    LET batch == Take(chunk, 20)
        Valid(symbol) == FyersValidate(FyersQuote(symbol))
        accepted == SelectSeq(batch, Valid)
    IN  [records |-> [i \in 1..Len(accepted) |-> FyersQuote(accepted[i])],
         asked |-> Range(batch)]

\* FyersClient.get_stock_data: the records returned and the symbols requested
FyersGetStockData(chunk, configured) ==
    IF ~configured THEN [records |-> <<>>, asked |-> {}]
    ELSE LET batch == Take(chunk, 20)
             Valid(symbol) == FyersValidate(FyersQuote(symbol))
             accepted == SelectSeq(batch, Valid)
         IN  [records |-> [i \in 1..Len(accepted) |-> FyersQuote(accepted[i])],
              asked |-> Range(batch)]

\* RobustNSEScraper.get_stock_data_robust after _establish_robust_session
\* returned established
GetStockDataRobustRecords(chunk, established) ==
    IF ~established THEN [records |-> <<>>, asked |-> {}]
    ELSE LET batch == Take(chunk, 30)
             Valid(symbol) == NSEValidate(RobustQuote(symbol))
             accepted == SelectSeq(batch, Valid)
         IN  [records |-> [i \in 1..Len(accepted) |-> RobustQuote(accepted[i])],
              asked |-> Range(batch)]

\* NSEClient._get_nse_tools_data: has is the set of symbols nsetools quotes
GetNseToolsRecords(chunk, has) ==
    LET Valid(symbol) == symbol \in has /\ NSEToolsValidate(NSEToolsQuote(symbol))
        accepted == SelectSeq(chunk, Valid)
    IN  [records |-> [i \in 1..Len(accepted) |-> NSEToolsQuote(accepted[i])],
         asked |-> Range(chunk)]

\* EnhancedYFinanceClient.get_stock_data_batch: has is the set of symbols the
\* service has history for, failed is failed_symbols before the call
GetStockDataBatch(chunk, has, failed) ==
    LET valid_symbols == Without(chunk, failed)
        Valid(symbol) == symbol \in has /\ YFinanceValidate(YFinanceQuote(symbol))
        accepted == SelectSeq(valid_symbols, Valid)
    IN  [records |-> [i \in 1..Len(accepted) |-> YFinanceQuote(accepted[i])],
         asked |-> Range(valid_symbols),
         failed_symbols |-> failed \cup (Range(valid_symbols) \ Range(accepted))]

\* NSEClient.get_stock_data: the three methods in order, each on the symbols
\* the earlier ones did not return
NSEGetStockData(chunk, established, initialized, tools_has, yfinance_has, failed) ==
    LET robust == GetStockDataRobustRecords(Take(chunk, 20), established)
        missing_symbols == Without(chunk, SymbolsOf(robust.records))
        tools == IF initialized /\ Len(missing_symbols) > 0
                 THEN GetNseToolsRecords(Take(missing_symbols, 10), tools_has)
                 ELSE [records |-> <<>>, asked |-> {}]
        final_missing ==
            Without(chunk, SymbolsOf(robust.records) \cup SymbolsOf(tools.records))
        yf == IF Len(final_missing) > 0
              THEN GetStockDataBatch(Take(final_missing, 15), yfinance_has, failed)
              ELSE [records |-> <<>>, asked |-> {}, failed_symbols |-> failed]
    IN  [records |-> robust.records \o tools.records \o yf.records,
         asked_scraper |-> robust.asked,
         asked_nsetools |-> tools.asked,
         asked_yfinance |-> yf.asked,
         failed_symbols |-> yf.failed_symbols]

NoFault == [source |-> "none", kind |-> "none"]

NoAllData == [fo_stocks |-> <<>>, stock_data |-> <<>>]

\* DataAgent.__init__, before a cycle
CycleIdle ==
    /\ symbols = <<>>
    /\ fyers_configured = FALSE
    /\ market = [nsetools |-> {}, yfinance |-> {}, sprouts |-> <<>>]
    /\ fault = NoFault
    /\ cycle_pc = "idle"
    /\ task_state = <<>>
    /\ all_stock_data = <<>>
    /\ asked = [fyers |-> {}, scraper |-> {}, nsetools |-> {}, yfinance |-> {}]
    /\ failed_symbols = {}
    /\ errors = {}
    /\ self_stock_data = <<>>
    /\ all_data = NoAllData

----------------------------------------------------------------------------
(* RobustNSEScraper: the session, and the scraper-facing steps of a cycle *)

\* time.time() when the scraper is constructed, and the latest modelled time
StartTime == 1000
MaxTime == 1500

\* seconds that pass between two steps
Delays == {99, 100}

\* SessionFresh with "<= 300" for the "< 300" of line 64
SessionFresh_Inclusive(cookies, last, current_time) ==
    cookies /\ (current_time - last) <= 300

\* self.cookies_established and (current_time - self.last_session_time) < 300
SessionFresh(cookies, last, current_time) ==
    cookies /\ (current_time - last) < 300

\* entry_points of method 2
EntryPoints ==
    <<"/", "/market-data/live-equity-market", "/get-quotes/equity",
      "/companies-listing/corporate-filings-announcements">>

\* what the exchange website lets through: the strategy that succeeds first
\* (0 the homepage, k the k-th entry point, 5 the direct API warmup, 6 none)
SessionOutcomes == 0..6

\* EstablishRequests with the entry-point loop running to its end after a success
EstablishRequests_NoEarlyReturn(outcome) ==
    <<"homepage">>
    \o (IF outcome = 0 THEN <<>> ELSE EntryPoints)
    \o (IF outcome <= Len(EntryPoints) THEN <<"/api/equity-stockIndices">> ELSE <<"/api/allIndices">>)

\* the GET requests of the strategies tried up to the one that succeeds
EstablishRequests(outcome) ==
    <<"homepage">>
    \o (IF outcome = 0 THEN <<>> ELSE SubSeq(EntryPoints, 1, Min(outcome, Len(EntryPoints))))
    \o (IF outcome <= Len(EntryPoints) THEN <<"/api/equity-stockIndices">> ELSE <<"/api/allIndices">>)

\* RobustNSEScraper._establish_robust_session: the value returned, the
\* attributes after the call and the requests issued
EstablishRobustSession(cookies, last, current_time, outcome) ==
    IF SessionFresh(cookies, last, current_time)
    THEN [result |-> TRUE, cookies_established |-> cookies, last_session_time |-> last,
          requests |-> <<>>]
    ELSE IF outcome <= Len(EntryPoints)
    THEN [result |-> TRUE, cookies_established |-> TRUE, last_session_time |-> current_time,
          requests |-> EstablishRequests(outcome)]
    ELSE [result |-> (outcome = 5), cookies_established |-> cookies, last_session_time |-> last,
          requests |-> EstablishRequests(outcome)]

\* the record of one _establish_robust_session call
EstablishCall(outcome) ==
    LET e == EstablishRobustSession(cookies_established, last_session_time, clock, outcome)
    IN  [called |-> TRUE, had_session |-> cookies_established,
         elapsed |-> clock - last_session_time, result |-> e.result, requests |-> e.requests,
         outcome |-> outcome]

NoEstablishCall ==
    [called |-> FALSE, had_session |-> FALSE, elapsed |-> 0, result |-> FALSE, requests |-> <<>>,
     outcome |-> 6]

EstablishEvent(result) == IF result THEN "establish_true" ELSE "establish_false"

\* the symbol the cycle asks the exchange sources for
ScrapedSymbol == PyStr("RELIANCE")

\* _parse_quote_equity_data: the record built from a quote-equity response
ScrapedQuote == Quote(ScrapedSymbol, 110, 112, 100, 105, 5000, 0, "nse_quote_equity_real")

\* RobustNSEScraper.__init__
SessionConstructed ==
    /\ cookies_established = FALSE
    /\ last_session_time = 0
    /\ session_pc = "idle"
    /\ session_log = <<>>
    /\ last_establish = NoEstablishCall
    /\ nse_data = <<>>

\* no harness call is in progress
HarnessIdle ==
    /\ op = "" /\ pc = "idle"
    /\ stock_data = <<>> /\ stock = NoStock
    /\ gap_up_pct = NoPercentage /\ change_pct = NoPercentage
    /\ filtered_stocks = <<>> /\ returned = <<>> /\ valid = FALSE /\ filter_score = 0

SessionInit ==
    /\ HarnessIdle
    /\ SessionConstructed
    /\ nse_initialized \in BOOLEAN
    /\ clock = StartTime
    /\ CycleIdle

\* time passes
Tick ==
    /\ \E d \in Delays :
          /\ clock + d <= MaxTime
          /\ clock' = clock + d
    /\ UNCHANGED <<cookies_established, last_session_time, nse_initialized, session_pc,
                   session_log, last_establish, nse_data>>
    /\ UNCHANGED <<harness_vars, cycle_vars>>

\* DataAgent.get_all_data begins a cycle
StartCycle ==
    /\ session_pc = "idle"
    /\ session_pc' = "get_fo_stocks_robust"
    /\ session_log' = <<>>
    /\ nse_data' = <<>>
    /\ UNCHANGED <<cookies_established, last_session_time, clock, nse_initialized, last_establish>>
    /\ UNCHANGED <<harness_vars, cycle_vars>>

\* RobustNSEScraper.get_fo_stocks_robust: the symbol-list requests are issued
\* only after _establish_robust_session returned true
GetFoStocksRobust ==
    /\ session_pc = "get_fo_stocks_robust"
    /\ \E outcome \in SessionOutcomes :
          LET e == EstablishRobustSession(cookies_established, last_session_time, clock, outcome)
          IN  /\ last_establish' = EstablishCall(outcome)
              /\ cookies_established' = e.cookies_established
              /\ last_session_time' = e.last_session_time
              /\ session_log' = session_log \o <<EstablishEvent(e.result)>>
                                 \o (IF e.result THEN <<"fo_list">> ELSE <<>>)
    /\ session_pc' = "get_stock_data_robust"
    /\ UNCHANGED <<clock, nse_initialized, nse_data>>
    /\ UNCHANGED <<harness_vars, cycle_vars>>

\* NSEClient.get_stock_data, method 1: RobustNSEScraper.get_stock_data_robust.
\* found: the quote-equity endpoint answers for the symbol.
GetStockDataRobust ==
    /\ session_pc = "get_stock_data_robust"
    /\ \E outcome \in SessionOutcomes, found \in BOOLEAN :
          LET e == EstablishRobustSession(cookies_established, last_session_time, clock, outcome)
          IN  /\ last_establish' = EstablishCall(outcome)
              /\ cookies_established' = e.cookies_established
              /\ last_session_time' = e.last_session_time
              /\ session_log' = session_log \o <<EstablishEvent(e.result)>>
                     \o (IF ~e.result THEN <<>>
                         ELSE IF found THEN <<"quote", "historical", "oi">>
                         ELSE <<"quote">>)
              /\ nse_data' = (IF e.result /\ found /\ NSEValidate(ScrapedQuote)
                              THEN <<ScrapedQuote>> ELSE <<>>)
    /\ session_pc' = "_get_nse_tools_data"
    /\ UNCHANGED <<clock, nse_initialized>>
    /\ UNCHANGED <<harness_vars, cycle_vars>>

\* NSEClient.get_stock_data, method 2: _get_nse_tools_data for the symbols
\* method 1 did not return, when nsetools is initialized. found: nsetools has
\* a quote with a lastPrice. The previous-day and open-interest data are then
\* requested through the scraper's session.
GetNseToolsData ==
    /\ session_pc = "_get_nse_tools_data"
    /\ \E found \in BOOLEAN :
          session_log' =
              session_log \o (IF nse_initialized /\ Len(nse_data) = 0 /\ found
                              THEN <<"historical", "oi">> ELSE <<>>)
    /\ session_pc' = "idle"
    /\ UNCHANGED <<cookies_established, last_session_time, clock, nse_initialized,
                   last_establish, nse_data>>
    /\ UNCHANGED <<harness_vars, cycle_vars>>

SessionNext ==
    \/ Tick
    \/ StartCycle
    \/ GetFoStocksRobust
    \/ GetStockDataRobust
    \/ GetNseToolsData

SessionSpec == SessionInit /\ [][SessionNext]_vars

----------------------------------------------------------------------------
(* One acquisition cycle: DataAgent.get_all_data *)

\* chunk_size and max_workers of fetch_stock_data_parallel
chunk_size == 20
max_workers == 3

\* numbers of symbols in the universe
UniverseSizes == {10, 20, 21}

\* the first 70% of the universe and the rest
Head70(universe) == Range(Take(universe, (7 * Len(universe)) \div 10))
Tail30(universe) == Range(universe) \ Head70(universe)

\* symbol_chunks
SymbolChunks(universe) ==
    [k \in 1..((Len(universe) + chunk_size - 1) \div chunk_size) |->
        SubSeq(universe, (k - 1) * chunk_size + 1, Min(k * chunk_size, Len(universe)))]

\* futures, in submission order: for each chunk the Fyers task, then the NSE task
Futures(universe) ==
    LET chunks == SymbolChunks(universe)
    IN  [i \in 1..(2 * Len(chunks)) |->
            [source |-> IF i % 2 = 1 THEN "Fyers" ELSE "NSE", chunk |-> chunks[(i + 1) \div 2]]]

\* a payload record without a 'symbol' key
MalformedRecord == [ltp |-> 112, prev_close |-> 100, source |-> "unknown"]

\* the unexpected failure of one source attempt in the cycle
Faults ==
    {NoFault} \cup { [source |-> s, kind |-> k] :
                       s \in {"Fyers", "NSE", "NSE Sprouts"}, k \in {"raises", "malformed"} }

\* what get_pre_open_data returns when the exchange serves pre-open data: one
\* validated record per listed symbol, one of them outside the universe
SproutsRecords(universe) ==
    [i \in 1..Len(universe) |-> SproutsQuote(universe[i])] \o <<SproutsQuote(PyStr("NIFTYBEES"))>>

\* the same when the historical endpoint answered for every symbol
SproutsEnhancedRecords(universe) ==
    [i \in 1..Len(universe) |-> SproutsEnhancedQuote(universe[i])]
    \o <<SproutsEnhancedQuote(PyStr("NIFTYBEES"))>>

\* no scraper-facing step is in progress
SessionIdle ==
    /\ SessionConstructed
    /\ clock = StartTime

CycleInit ==
    /\ HarnessIdle
    /\ SessionIdle
    /\ nse_initialized \in BOOLEAN
    /\ \E n \in UniverseSizes : symbols = Take(FOList, n)
    /\ fyers_configured \in BOOLEAN
    /\ market \in { [nsetools |-> Head70(symbols), yfinance |-> y, sprouts |-> s] :
                      y \in {Tail30(symbols), Range(symbols)},
                      s \in {<<>>, SproutsRecords(symbols), SproutsEnhancedRecords(symbols)} }
    /\ fault \in {f \in Faults : f.source = "Fyers" => fyers_configured}
    /\ cycle_pc = "get_all_data"
    /\ task_state = <<>>
    /\ all_stock_data = <<>>
    /\ asked = [fyers |-> {}, scraper |-> {}, nsetools |-> {}, yfinance |-> {}]
    /\ failed_symbols = {}
    /\ errors = {}
    /\ self_stock_data = <<>>
    /\ all_data = NoAllData

Running == {i \in 1..Len(task_state) : task_state[i] = "running"}

\* fetch_stock_data_parallel, lines 65-94: the futures are submitted
SubmitFutures ==
    /\ cycle_pc = "get_all_data"
    /\ cycle_pc' = "as_completed"
    /\ task_state' = [i \in 1..Len(Futures(symbols)) |-> "queued"]
    /\ UNCHANGED <<symbols, fyers_configured, market, fault, all_stock_data, asked,
                   failed_symbols, errors, self_stock_data, all_data>>
    /\ UNCHANGED <<harness_vars, session_vars>>

\* a worker thread of the pool takes the oldest queued future
StartFuture(i) ==
    /\ cycle_pc = "as_completed"
    /\ task_state[i] = "queued"
    /\ \A j \in 1..(i - 1) : task_state[j] # "queued"
    /\ Cardinality(Running) < max_workers
    /\ task_state' = [task_state EXCEPT ![i] = "running"]
    /\ UNCHANGED <<symbols, fyers_configured, market, fault, cycle_pc, all_stock_data, asked,
                   failed_symbols, errors, self_stock_data, all_data>>
    /\ UNCHANGED <<harness_vars, session_vars>>

\* fetch_from_source around a client call: the list handed to all_stock_data
\* and whether the error was logged
FetchFromSource(source, records) ==
    IF fault.source = source /\ fault.kind = "raises"
    THEN [records |-> <<>>, logged |-> {source}]
    ELSE IF fault.source = source /\ fault.kind = "malformed"
    THEN [records |-> <<MalformedRecord>> \o records, logged |-> {}]
    ELSE [records |-> records, logged |-> {}]

\* fetch_from_source("Fyers", ...) returns and as_completed collects it
FinishFyers(i) ==
    /\ cycle_pc = "as_completed"
    /\ task_state[i] = "running"
    /\ Futures(symbols)[i].source = "Fyers"
    /\ LET r == FyersGetStockData(Futures(symbols)[i].chunk, fyers_configured)
           f == FetchFromSource("Fyers", r.records)
       IN  /\ all_stock_data' = all_stock_data \o f.records
           /\ asked' = [asked EXCEPT !.fyers = @ \cup r.asked]
           /\ errors' = errors \cup f.logged
    /\ task_state' = [task_state EXCEPT ![i] = "done"]
    /\ UNCHANGED <<symbols, fyers_configured, market, fault, cycle_pc, failed_symbols,
                   self_stock_data, all_data>>
    /\ UNCHANGED <<harness_vars, session_vars>>

\* fetch_from_source("NSE", ...) returns and as_completed collects it
FinishNSE(i) ==
    /\ cycle_pc = "as_completed"
    /\ task_state[i] = "running"
    /\ Futures(symbols)[i].source = "NSE"
    /\ \E outcome \in SessionOutcomes :
          LET e == EstablishRobustSession(cookies_established, last_session_time, clock, outcome)
              r == NSEGetStockData(Futures(symbols)[i].chunk, e.result, nse_initialized,
                                   market.nsetools, market.yfinance, failed_symbols)
              f == FetchFromSource("NSE", r.records)
          IN  /\ cookies_established' = e.cookies_established
              /\ last_session_time' = e.last_session_time
              /\ all_stock_data' = all_stock_data \o f.records
              /\ asked' = [asked EXCEPT !.scraper = @ \cup r.asked_scraper,
                                        !.nsetools = @ \cup r.asked_nsetools,
                                        !.yfinance = @ \cup r.asked_yfinance]
              /\ failed_symbols' = r.failed_symbols
              /\ errors' = errors \cup f.logged
    /\ task_state' = [task_state EXCEPT ![i] = "done"]
    /\ UNCHANGED <<symbols, fyers_configured, market, fault, cycle_pc, self_stock_data, all_data>>
    /\ UNCHANGED harness_vars
    /\ UNCHANGED <<clock, nse_initialized, session_pc, session_log, last_establish, nse_data>>

\* fetch_stock_data_parallel, lines 104-118: the pre-open data, once every
\* future is collected
FetchSprouts ==
    /\ cycle_pc = "as_completed"
    /\ \A i \in 1..Len(task_state) : task_state[i] = "done"
    /\ LET sprouts_data ==
               IF fault = [source |-> "NSE Sprouts", kind |-> "malformed"]
               THEN <<MalformedRecord>> \o market.sprouts
               ELSE market.sprouts
           raised ==
               \/ fault = [source |-> "NSE Sprouts", kind |-> "raises"]
               \/ \E k \in 1..Len(sprouts_data) : "symbol" \notin DOMAIN sprouts_data[k]
           InUniverse(d) == d.symbol \in Range(symbols)
       IN  IF raised
           THEN /\ errors' = errors \cup {"NSE Sprouts"}
                /\ UNCHANGED all_stock_data
           ELSE /\ all_stock_data' = all_stock_data \o SelectSeq(sprouts_data, InUniverse)
                /\ UNCHANGED errors
    /\ cycle_pc' = "_merge_duplicate_stocks"
    /\ UNCHANGED <<symbols, fyers_configured, market, fault, task_state, asked, failed_symbols,
                   self_stock_data, all_data>>
    /\ UNCHANGED <<harness_vars, session_vars>>

\* fetch_stock_data_parallel, lines 120-126, and the return of get_all_data:
\* a KeyError of _merge_duplicate_stocks is caught by get_all_data only
MergeAndReturn ==
    /\ cycle_pc = "_merge_duplicate_stocks"
    /\ IF \E k \in 1..Len(all_stock_data) : "symbol" \notin DOMAIN all_stock_data[k]
       THEN /\ errors' = errors \cup {"get_all_data"}
            /\ all_data' = NoAllData
            /\ UNCHANGED self_stock_data
       ELSE /\ self_stock_data' = MergeDuplicateStocks(all_stock_data)
            /\ all_data' = [fo_stocks |-> symbols, stock_data |-> MergeDuplicateStocks(all_stock_data)]
            /\ UNCHANGED errors
    /\ cycle_pc' = "done"
    /\ UNCHANGED <<symbols, fyers_configured, market, fault, task_state, all_stock_data, asked,
                   failed_symbols>>
    /\ UNCHANGED <<harness_vars, session_vars>>

CycleNext ==
    \/ SubmitFutures
    \/ \E i \in 1..Len(task_state) : StartFuture(i)
    \/ \E i \in 1..Len(task_state) : FinishFyers(i)
    \/ \E i \in 1..Len(task_state) : FinishNSE(i)
    \/ FetchSprouts
    \/ MergeAndReturn

CycleSpec == CycleInit /\ [][CycleNext]_vars

----------------------------------------------------------------------------
(* Successive scan cycles of one StockScreenerOrchestrator *)

\* settings.SCAN_INTERVAL_MINUTES, in seconds
ScanInterval == 300

\* the first scan: a 10-symbol universe, no pre-open data, no fault
ScanInit ==
    /\ CycleInit
    /\ Len(symbols) = 10
    /\ market.sprouts = <<>>
    /\ fault = NoFault

\* the scheduler runs run_scan again: the agents and their clients are the
\* ones built in __init__, the locals of the previous scan are gone, and
\* yfinance may have history for other symbols than before
NextScan ==
    /\ cycle_pc = "done"
    /\ clock + ScanInterval <= MaxTime
    /\ clock' = clock + ScanInterval
    /\ \E y \in {Tail30(symbols), Range(symbols)} : market' = [market EXCEPT !.yfinance = y]
    /\ cycle_pc' = "get_all_data"
    /\ task_state' = <<>>
    /\ all_stock_data' = <<>>
    /\ asked' = [fyers |-> {}, scraper |-> {}, nsetools |-> {}, yfinance |-> {}]
    /\ errors' = {}
    /\ all_data' = NoAllData
    /\ UNCHANGED <<symbols, fyers_configured, fault, failed_symbols, self_stock_data>>
    /\ UNCHANGED <<cookies_established, last_session_time, nse_initialized, session_pc,
                   session_log, last_establish, nse_data>>
    /\ UNCHANGED harness_vars

ScanNext ==
    \/ CycleNext
    \/ NextScan

ScanSpec == ScanInit /\ [][ScanNext]_vars

----------------------------------------------------------------------------
(* The harness: Init draws a method and its arguments, the action calls it *)

Init ==
    /\ op \in Operations
    /\ pc = "call"
    /\ stock_data \in
         CASE op = "filter_stocks" -> FilterInputs
           [] op = "_merge_duplicate_stocks" -> MergeInputs
           [] op = "_merge_stock_data" -> [1..2 -> MergeRecords]
           [] op = "log_signals" -> LogInputs
           [] OTHER -> {<<>>}
    /\ stock \in
         CASE op \in {"filter_validate", "nse_validate", "fyers_validate"} -> ValidatorRecords
           [] op = "_calculate_filter_score" -> ScoreRecords
           [] OTHER -> {NoStock}
    /\ gap_up_pct \in (IF op = "_calculate_filter_score" THEN Percentages ELSE {NoPercentage})
    /\ change_pct \in (IF op = "_calculate_filter_score" THEN Percentages ELSE {NoPercentage})
    /\ filtered_stocks = <<>>
    /\ returned = <<>>
    /\ valid = FALSE
    /\ filter_score = 0
    /\ SessionIdle
    /\ nse_initialized = FALSE
    /\ CycleIdle

\* FilterAgent.filter_stocks(stock_data)
CallFilterStocks ==
    /\ pc = "call" /\ op = "filter_stocks"
    /\ returned' = FilterStocks(stock_data)
    /\ filtered_stocks' = (IF Len(stock_data) = 0 THEN filtered_stocks ELSE FilterStocks(stock_data))
    /\ pc' = "done"
    /\ UNCHANGED <<op, stock_data, stock, gap_up_pct, change_pct, valid, filter_score>>
    /\ UNCHANGED <<session_vars, cycle_vars>>

\* DataAgent._merge_duplicate_stocks(stock_data)
CallMergeDuplicateStocks ==
    /\ pc = "call" /\ op = "_merge_duplicate_stocks"
    /\ returned' = MergeDuplicateStocks(stock_data)
    /\ pc' = "done"
    /\ UNCHANGED <<op, stock_data, stock, gap_up_pct, change_pct, filtered_stocks, valid, filter_score>>
    /\ UNCHANGED <<session_vars, cycle_vars>>

\* NSESproutsClient._merge_stock_data(existing, new)
CallMergeStockData ==
    /\ pc = "call" /\ op = "_merge_stock_data"
    /\ returned' = <<MergeStockData(stock_data[1], stock_data[2])>>
    /\ pc' = "done"
    /\ UNCHANGED <<op, stock_data, stock, gap_up_pct, change_pct, filtered_stocks, valid, filter_score>>
    /\ UNCHANGED <<session_vars, cycle_vars>>

\* FilterAgent._validate_real_stock_data(stock)
CallFilterValidate ==
    /\ pc = "call" /\ op = "filter_validate"
    /\ valid' = FilterValidate(stock)
    /\ pc' = "done"
    /\ UNCHANGED <<op, stock_data, stock, gap_up_pct, change_pct, filtered_stocks, returned, filter_score>>
    /\ UNCHANGED <<session_vars, cycle_vars>>

\* RobustNSEScraper._validate_real_stock_data(stock)
CallNSEValidate ==
    /\ pc = "call" /\ op = "nse_validate"
    /\ valid' = NSEValidate(stock)
    /\ pc' = "done"
    /\ UNCHANGED <<op, stock_data, stock, gap_up_pct, change_pct, filtered_stocks, returned, filter_score>>
    /\ UNCHANGED <<session_vars, cycle_vars>>

\* FyersClient._validate_stock_data(stock)
CallFyersValidate ==
    /\ pc = "call" /\ op = "fyers_validate"
    /\ valid' = FyersValidate(stock)
    /\ pc' = "done"
    /\ UNCHANGED <<op, stock_data, stock, gap_up_pct, change_pct, filtered_stocks, returned, filter_score>>
    /\ UNCHANGED <<session_vars, cycle_vars>>

\* FilterAgent._calculate_filter_score(stock, gap_up_pct, change_pct)
CallCalculateFilterScore ==
    /\ pc = "call" /\ op = "_calculate_filter_score"
    /\ filter_score' = CalculateFilterScore(stock, gap_up_pct, change_pct)
    /\ pc' = "done"
    /\ UNCHANGED <<op, stock_data, stock, gap_up_pct, change_pct, filtered_stocks, returned, valid>>
    /\ UNCHANGED <<session_vars, cycle_vars>>

\* LoggerAgent.log_signals(filtered_stocks)
CallLogSignals ==
    /\ pc = "call" /\ op = "log_signals"
    /\ returned' = LogSignals(stock_data)
    /\ pc' = "done"
    /\ UNCHANGED <<op, stock_data, stock, gap_up_pct, change_pct, filtered_stocks, valid, filter_score>>
    /\ UNCHANGED <<session_vars, cycle_vars>>

Next ==
    \/ CallFilterStocks
    \/ CallMergeDuplicateStocks
    \/ CallMergeStockData
    \/ CallFilterValidate
    \/ CallNSEValidate
    \/ CallFyersValidate
    \/ CallCalculateFilterScore
    \/ CallLogSignals

Spec == Init /\ [][Next]_vars

----------------------------------------------------------------------------
(* Successive filter_stocks calls on one FilterAgent *)

\* d with the value under key replaced by a value of another Python type
OfPyType(d, key, type) ==
    [py_type |-> [k \in {key} |-> type]]
        @@ (IF type = "str" THEN d ELSE [d EXCEPT ![key] = 0])

\* records handed to filter_stocks at position i of a list
FilterCallRecords(i) ==
    LET q == Quote(PyNum(i), 110, 112, 100, 105, 5000, 0, "nse_quote_equity_real")
    IN  { q, [q EXCEPT !.ltp = 106],
          OfPyType(q, "volume", "str"), OfPyType(q, "volume", "text"),
          OfPyType(q, "prev_day_high", "str"), OfPyType(q, "total_oi", "None") }

FilterCallInputs ==
    UNION { { list \in [1..n -> UNION { FilterCallRecords(i) : i \in 1..n }] :
                \A i \in 1..n : list[i] \in FilterCallRecords(i) } : n \in 0..MaxStocks }

\* FilterAgent.__init__, then the first call
FilterInit ==
    /\ op = "filter_stocks"
    /\ pc = "call"
    /\ stock_data \in FilterCallInputs
    /\ stock = NoStock
    /\ gap_up_pct = NoPercentage
    /\ change_pct = NoPercentage
    /\ filtered_stocks = <<>>
    /\ returned = <<>>
    /\ valid = FALSE
    /\ filter_score = 0
    /\ SessionIdle
    /\ nse_initialized = FALSE
    /\ CycleIdle

\* the caller hands the same FilterAgent the next list
NextFilterCall ==
    /\ pc = "done" /\ op = "filter_stocks"
    /\ \E list \in FilterCallInputs : stock_data' = list
    /\ pc' = "call"
    /\ UNCHANGED <<op, stock, gap_up_pct, change_pct, filtered_stocks, returned, valid, filter_score>>
    /\ UNCHANGED <<session_vars, cycle_vars>>

FilterNext ==
    \/ CallFilterStocks
    \/ NextFilterCall

FilterSpec == FilterInit /\ [][FilterNext]_vars

----------------------------------------------------------------------------
(* Properties *)

Done(method) == pc = "done" /\ op = method

NamesSynthetic(source) ==
    \/ Contains(Lower(source), "synthetic")
    \/ Contains(Lower(source), "generated")
    \/ Contains(Lower(source), "fake")

\* C1: every validator returns false for a record with ltp <= 0, or
\* prev_close <= 0, or a day-over-day move |ltp/prev_close - 1| above 50%.
C1_ValidatorsRejectImplausible ==
    (pc = "done" /\ op \in {"filter_validate", "nse_validate", "fyers_validate"}) =>
        ((\/ stock.ltp <= 0
          \/ stock.prev_close <= 0
          \/ 2 * Abs(stock.ltp - stock.prev_close) > stock.prev_close) => ~valid)

\* C2: the Scenario 1 record (symbol "ABC", open_price 110, ltp 112,
\* prev_close 100, prev_day_high 105, volume 5000, total_oi 0) is accepted by
\* the validator and emitted by filter_stocks at the 7% threshold: its string
\* symbol does not make it rejected.
C2_Scenario1Emitted ==
    (Done("filter_stocks") /\ stock_data = <<Scenario1>>) =>
        /\ Len(returned) = 1
        /\ returned[1].symbol = PyStr("ABC")

\* C3: no record whose source names synthetic, generated or fake data, in any
\* letter case and also as one tag of a comma-joined source, is in the list
\* filter_stocks returns.
C3_NoSyntheticOutput ==
    Done("filter_stocks") =>
        \A i \in 1..Len(returned) : ~NamesSynthetic(Get(returned[i], "source", ""))

\* C3 witness: of two records that differ in the source only, both with a
\* numeric symbol and passing the gate, the one tagged "fyers,GENERATED" is
\* dropped and the other is returned.
C3_Witness ==
    /\ Done("filter_stocks")
    /\ Len(stock_data) = 2
    /\ stock_data[1] = Quote(PyNum(1), 110, 112, 100, 105, 5000, 0, "fyers,GENERATED")
    /\ stock_data[2] = Quote(PyNum(1), 110, 112, 100, 105, 5000, 0, "nse_quote_equity_real")
    /\ Len(returned) = 1
    /\ returned[1].source = "nse_quote_equity_real"

\* C4: merging a record with itself is a no-op: _merge_duplicate_stocks([x, x])
\* is the one record x, every field and the source string unchanged.
C4_SelfMergeNoOp ==
    (Done("_merge_duplicate_stocks") /\ Len(stock_data) = 2 /\ stock_data[1] = stock_data[2]) =>
        returned = <<stock_data[1]>>

SameSymbol(list) == \A i \in 1..Len(list) : list[i].symbol = list[1].symbol
SingleTags(list) == \A i \in 1..Len(list) : ~Contains(list[i].source, ",")

\* the tags of the records, each at its first contribution, joined by commas
RECURSIVE JoinFirstTags(_, _)
JoinFirstTags(list, n) ==
    IF n = 1 THEN list[1].source
    ELSE IF \E j \in 1..(n - 1) : list[j].source = list[n].source
         THEN JoinFirstTags(list, n - 1)
         ELSE JoinFirstTags(list, n - 1) \o "," \o list[n].source

LastNonZero(list, key) ==
    LET nz == {i \in 1..Len(list) : key \in DOMAIN list[i] /\ list[i][key] # 0}
    IN  IF nz = {} THEN 0 ELSE CHOOSE i \in nz : \A j \in nz : j <= i

\* the value of a numeric key after merging the list into its first record
KeepsLastNonZero(list, merged, key) ==
    LET last == LastNonZero(list, key)
    IN  IF last # 0 THEN key \in DOMAIN merged /\ merged[key] = list[last][key]
        ELSE IF key \in DOMAIN list[1] THEN key \in DOMAIN merged /\ merged[key] = list[1][key]
        ELSE key \notin DOMAIN merged

\* C6: for every numeric field, merge(existing, incoming) holds the incoming
\* value when that is non-zero and the existing value otherwise, in
\* DataAgent._merge_duplicate_stocks and in NSESproutsClient._merge_stock_data.
C6_NonZeroIncomingWins ==
    /\ (Done("_merge_duplicate_stocks") /\ Len(stock_data) >= 1 /\ SameSymbol(stock_data)) =>
          /\ Len(returned) = 1
          /\ \A key \in {"total_oi", "volume"} : KeepsLastNonZero(stock_data, returned[1], key)
    /\ Done("_merge_stock_data") =>
          \A key \in {"total_oi", "volume"} : KeepsLastNonZero(stock_data, returned[1], key)

\* C6 witness: 5000 then 7000 then 0 for total_oi of one symbol leaves 7000:
\* the non-zero incoming value replaced 5000 and the zero did not replace 7000.
C6_Witness ==
    /\ Done("_merge_duplicate_stocks")
    /\ Len(stock_data) = 3 /\ SameSymbol(stock_data)
    /\ stock_data[1].total_oi = 5000
    /\ stock_data[2].total_oi = 7000
    /\ stock_data[3].total_oi = 0
    /\ returned[1].total_oi = 7000

\* C7: every record filter_stocks returns satisfies the six gate conditions:
\* open_price above the effective previous-day high, percentage_change at
\* least min_percentage_increase, volume > 1000, 10 <= ltp <= 50000,
\* 0.1 <= gap_up_percentage <= 25 and -50 <= percentage_change <= 100.
C7_OutputSatisfiesGate ==
    Done("filter_stocks") =>
        \A i \in 1..Len(returned) :
            LET r == returned[i]
                high == IF r.prev_day_high <= 0 THEN r.prev_close ELSE r.prev_day_high
            IN  /\ r.open_price > high
                /\ 100 * (r.ltp - r.prev_close) >= MIN_PERCENTAGE_INCREASE * r.prev_close
                /\ r.percentage_change >= 100 * MIN_PERCENTAGE_INCREASE
                /\ r.volume > 1000
                /\ 10 <= r.ltp /\ r.ltp <= 50000
                /\ 1000 * (r.open_price - high) >= high
                /\ 100 * (r.open_price - high) <= 25 * high
                /\ 10 <= r.gap_up_percentage /\ r.gap_up_percentage <= 2500
                /\ -50 * r.prev_close <= 100 * (r.ltp - r.prev_close)
                /\ 100 * (r.ltp - r.prev_close) <= 100 * r.prev_close
                /\ -5000 <= r.percentage_change /\ r.percentage_change <= 10000

\* C7 witness: a call that returned one of two validated records and dropped
\* the other at the gate.
C7_Witness ==
    /\ Done("filter_stocks")
    /\ Len(stock_data) = 2
    /\ \A i \in 1..2 :
          IsNumber(stock_data[i].symbol) /\ stock_data[i].source = "nse_quote_equity_real"
    /\ Len(returned) = 1

\* C8: a validated record with prev_day_high = 0 is not rejected for it:
\* prev_close stands in as the previous-day high and the gap is computed from
\* it, so prev_close 100 and open_price 108 give gap_up_percentage 8.
C8_FallbackToPrevClose ==
    Done("filter_stocks") =>
        /\ \A i \in 1..Len(stock_data) :
              LET d == stock_data[i]
              IN  (/\ IsNumber(d.symbol) /\ d.symbol.num > 0
                   /\ ~NamesSynthetic(Get(d, "source", ""))
                   /\ d.prev_day_high = 0 /\ d.prev_close = 100 /\ d.open_price = 108
                   /\ d.ltp = 112 /\ d.volume = 5000)
                  => \E j \in 1..Len(returned) :
                        /\ returned[j].symbol = d.symbol
                        /\ returned[j].prev_day_high = 0
                        /\ returned[j].gap_up_percentage = 800
        /\ \A j \in 1..Len(returned) :
              LET r == returned[j]
              IN  r.prev_day_high <= 0 =>
                    2 * Abs(r.gap_up_percentage * r.prev_close
                            - 10000 * (r.open_price - r.prev_close)) <= r.prev_close

\* C8 witness: Scenario 2 was filtered and came out with a gap of 8%.
C8_Witness ==
    /\ Done("filter_stocks")
    /\ Len(stock_data) = 1
    /\ stock_data[1].prev_day_high = 0
    /\ stock_data[1].prev_close = 100
    /\ stock_data[1].open_price = 108
    /\ Len(returned) = 1
    /\ returned[1].gap_up_percentage = 800

\* C9: filter_score never exceeds 100: the gap term is at most 40, the
\* momentum term at most 40, the volume term at most 10 and the
\* open-interest term at most 10.
C9_ScoreBounded ==
    /\ Done("_calculate_filter_score") =>
          /\ filter_score <= 10000
          /\ GapScore(gap_up_pct).n <= 40 * GapScore(gap_up_pct).d
          /\ MomentumScore(change_pct).n <= 40 * MomentumScore(change_pct).d
          /\ VolumeScore(stock) <= 10
          /\ OIScore(stock) <= 10
    /\ Done("filter_stocks") =>
          \A i \in 1..Len(returned) : returned[i].filter_score <= 10000

\* C9 witness: gap 25%, change 100%, volume 100001 and open interest 5000 hit
\* every cap and score exactly 100.
C9_Witness ==
    /\ Done("_calculate_filter_score")
    /\ gap_up_pct = Rat(25, 1) /\ change_pct = Rat(100, 1)
    /\ stock.volume = 100001 /\ stock.total_oi = 5000
    /\ filter_score = 10000

\* C10: filter_score is the sum of min(2 * gap_up_percentage, 40),
\* min(2 * percentage_change, 40), 10 / 7 / 5 / 2 / 0 points for volume
\* > 100000 / > 50000 / > 10000 / > 1000 / otherwise and 10 points when
\* total_oi > 0, as round(score, 2) returns it: the nearest hundredth.
C10_ScoreIsSumOfFourTerms ==
    Done("_calculate_filter_score") =>
        LET gn == IF 2 * gap_up_pct.n <= 40 * gap_up_pct.d
                  THEN 2 * gap_up_pct.n ELSE 40 * gap_up_pct.d
            cn == IF 2 * change_pct.n <= 40 * change_pct.d
                  THEN 2 * change_pct.n ELSE 40 * change_pct.d
            vol == CASE stock.volume > 100000 -> 10
                     [] stock.volume <= 100000 /\ stock.volume > 50000 -> 7
                     [] stock.volume <= 50000 /\ stock.volume > 10000 -> 5
                     [] stock.volume <= 10000 /\ stock.volume > 1000 -> 2
                     [] OTHER -> 0
            oi == IF stock.total_oi > 0 THEN 10 ELSE 0
            den == gap_up_pct.d * change_pct.d
            num == gn * change_pct.d + cn * gap_up_pct.d + (vol + oi) * den
        IN  2 * Abs(filter_score * den - 100 * num) <= den

\* C10 witness: gap 500/105, change 12%, volume 10000 (the 2-point band) and
\* no open interest score 9.52 + 24 + 2 + 0 = 35.52.
C10_Witness ==
    /\ Done("_calculate_filter_score")
    /\ gap_up_pct = Rat(500, 105) /\ change_pct = Rat(12, 1)
    /\ stock.volume = 10000 /\ stock.total_oi = 0
    /\ filter_score = 3552

\* the points the volume of the scored record adds to filter_score, in hundredths
VolumeTerm ==
    filter_score - CalculateFilterScore([stock EXCEPT !.volume = 0], gap_up_pct, change_pct)

ScoredScenario1 ==
    /\ Done("_calculate_filter_score")
    /\ stock = Scenario1
    /\ gap_up_pct = Rat(500, 105) /\ change_pct = Rat(12, 1)

\* C11 as the specification states it: for the Scenario 1 record (gap 4.76%,
\* change 12%, volume 5000, total_oi 0) filter_score is 38.52, the volume
\* term contributing 5 points.
C11_Scenario1Scores3852 ==
    ScoredScenario1 => (filter_score = 3852 /\ VolumeTerm = 500)

\* C11: for the Scenario 1 record (gap 4.76%, change 12%, volume 5000,
\* total_oi 0) filter_score is 35.52 = 9.52 + 24 + 2 + 0: volume 5000 is in
\* the "> 1000" band and contributes 2 points. filter_stocks emits the same
\* score for the record once it passes the validator.
C11_Scenario1Scores3552 ==
    /\ ScoredScenario1 => (filter_score = 3552 /\ VolumeTerm = 200)
    /\ (Done("filter_stocks") /\ Len(stock_data) = 1
            /\ stock_data[1] = [Scenario1 EXCEPT !.symbol = PyNum(1)]) =>
          (Len(returned) = 1 /\ returned[1].filter_score = 3552)

\* C11 witness: _calculate_filter_score ran on the Scenario 1 record.
C11_Witness == ScoredScenario1 /\ filter_score = 3552 /\ VolumeTerm = 200

QualityLabels == {"POOR", "FAIR", "GOOD", "EXCELLENT"}

\* the additive quality score of an emitted record, from its own fields
QualityScoreOf(r) ==
    LET source == Lower(Get(r, "source", ""))
    IN  (CASE Contains(source, "nse") -> 3
           [] ~Contains(source, "nse") /\ Contains(source, "yfinance") -> 2
           [] OTHER -> 1)
        + (IF r.prev_day_high > 0 THEN 2 ELSE 0)
        + (IF r.volume > 1000 THEN 1 ELSE 0)
        + (IF r.total_oi > 0 THEN 2 ELSE 0)
        + (IF Contains(source, "real") THEN 2 ELSE 0)

DataRequests == {"quote", "historical", "oi"}

\* C19: every quote, historical or open-interest request through the
\* scraper's session comes, within the cycle, after a call of
\* _establish_robust_session that returned true; and when the call of
\* get_stock_data_robust returns false, the scraped source yields no records
\* and the cycle goes on to the next source.
C19_RequestsFollowEstablishedSession ==
    /\ \A i \in 1..Len(session_log) :
          session_log[i] \in DataRequests =>
              \E j \in 1..(i - 1) : session_log[j] = "establish_true"
    /\ (session_pc = "_get_nse_tools_data" /\ ~last_establish.result) => nse_data = <<>>

----------------------------------------------------------------------------
(* The acquisition cycle *)

\* the records of a list that have a 'symbol' key
WellFormed(records) ==
    LET HasSymbol(d) == "symbol" \in DOMAIN d IN SelectSeq(records, HasSymbol)

\* the symbols some source has produced a validated record for so far
Resolved == SymbolsOf(WellFormed(all_stock_data))

\* get_all_data returned the dictionary built at lines 170-175
ReturnedNormally == cycle_pc = "done" /\ "get_all_data" \notin errors

\* C13: once all_stock_data holds a validated record for a symbol, no step of
\* the cycle asks any source (brokerage, scraper, nsetools, yfinance) for that
\* symbol afterwards.
C13_ResolvedNotAskedAgain ==
    [][ /\ (asked'.fyers \ asked.fyers) \cap Resolved = {}
        /\ (asked'.scraper \ asked.scraper) \cap Resolved = {}
        /\ (asked'.nsetools \ asked.nsetools) \cap Resolved = {}
        /\ (asked'.yfinance \ asked.yfinance) \cap Resolved = {} ]_vars

\* Scenario 5: the scraper returns nothing, nsetools quotes the first 70% of
\* the universe, yfinance has the remaining 30%, no other source takes part
Scenario5 ==
    /\ fault = NoFault
    /\ ~fyers_configured
    /\ nse_initialized
    /\ market = [nsetools |-> Head70(symbols), yfinance |-> Tail30(symbols), sprouts |-> <<>>]

\* C14: when the cycle of Scenario 5 has returned, its output holds a record
\* for every symbol of the universe, whatever the universe size.
C14_Scenario5FullCoverage ==
    (cycle_pc = "done" /\ Scenario5) => SymbolsOf(all_data.stock_data) = Range(symbols)

\* C15 as stated: the returned list has at most one record per symbol and a
\* record for every symbol some source returned a record for, the pre-open
\* source included.
C15_EverySourceSymbolReturned ==
    (ReturnedNormally /\ fault = NoFault) =>
        /\ \A i, j \in 1..Len(self_stock_data) :
              self_stock_data[i].symbol = self_stock_data[j].symbol => i = j
        /\ Resolved \cup SymbolsOf(market.sprouts) \subseteq SymbolsOf(self_stock_data)

\* C15: when fetch_stock_data_parallel returns, the returned list has at most
\* one record per symbol, the symbols in it are exactly those of the records
\* collected in all_stock_data, and these include every symbol of the universe
\* the pre-open source returned a record for; get_all_data hands the same list on.
C15_OneRecordPerCollectedSymbol ==
    ReturnedNormally =>
        /\ \A i, j \in 1..Len(self_stock_data) :
              self_stock_data[i].symbol = self_stock_data[j].symbol => i = j
        /\ SymbolsOf(self_stock_data) = Resolved
        /\ "NSE Sprouts" \notin errors =>
              SymbolsOf(market.sprouts) \cap Range(symbols) \subseteq SymbolsOf(self_stock_data)
        /\ all_data.stock_data = self_stock_data

\* a returned cycle in which the brokerage, yfinance and the pre-open source
\* each returned a record for the same symbols, and the pre-open source one
\* for a symbol outside the universe
C15_Witness ==
    /\ ReturnedNormally /\ fault = NoFault
    /\ Len(all_stock_data) > 2 * Len(self_stock_data)
    /\ Len(self_stock_data) = 21
    /\ PyStr("NIFTYBEES") \in SymbolsOf(market.sprouts) \ SymbolsOf(self_stock_data)

\* the source tags of the records a source attempt hands over
TagsOf(source) ==
    CASE source = "Fyers" -> {"fyers"}
      [] source = "NSE" -> {"nse_quote_equity_real", "nsetools_real", "yfinance_real"}
      [] source = "NSE Sprouts" -> {"nse_preopen_comprehensive"}
      [] OTHER -> {}

\* the symbols of the validated records collected from the sources other
\* than the one that failed
FromOtherSources ==
    LET Other(d) == d.source \notin TagsOf(fault.source) \cup {"unknown"}
    IN  SymbolsOf(SelectSeq(WellFormed(all_stock_data), Other))

\* C16: when one source attempt fails (raises, or hands over a record without
\* a 'symbol' key), get_all_data still returns a record for every symbol the
\* other sources returned a validated record for, and the failing attempt's
\* malformed record is not in the output.
C16_FailureNeverAbortsCycle ==
    (cycle_pc = "done" /\ fault # NoFault) =>
        /\ FromOtherSources \subseteq SymbolsOf(WellFormed(all_data.stock_data))
        /\ WellFormed(all_data.stock_data) = all_data.stock_data

\* C17: with the brokerage credentials not configured, no symbol is ever
\* requested from the brokerage, no brokerage error is recorded, no brokerage
\* record is collected, and by the time the cycle ends the NSE tasks have run
\* (yfinance was asked for the symbols still missing).
C17_UnconfiguredFyersSkipped ==
    ~fyers_configured =>
        /\ asked.fyers = {}
        /\ "Fyers" \notin errors
        /\ \A k \in 1..Len(all_stock_data) : all_stock_data[k].source # "fyers"
        /\ cycle_pc \in {"_merge_duplicate_stocks", "done"} =>
              /\ \A i \in 1..Len(task_state) : task_state[i] = "done"
              /\ asked.yfinance # {}

\* an unconfigured cycle has returned the records of yfinance and of the
\* pre-open source
C17_Witness ==
    /\ ~fyers_configured /\ ReturnedNormally /\ fault = NoFault
    /\ Len(symbols) = 21
    /\ \E k \in 1..Len(all_data.stock_data) :
          all_data.stock_data[k].source = "yfinance_real,nse_preopen_comprehensive"

\* C20: no two running worker tasks are calls to the same source client.
C20_OneRunningTaskPerSource ==
    \A i, j \in Running :
        Futures(symbols)[i].source = Futures(symbols)[j].source => i = j

\* the tiers configured in this cycle that a symbol was not requested from
\* (the scraper is left out: it is consulted only under an established session)
TiersNotAttempted(symbol) ==
    LET Configured(tier) ==
            CASE tier = "nsetools" -> nse_initialized
              [] tier = "fyers" -> fyers_configured
              [] OTHER -> TRUE
    IN  {tier \in {"nsetools", "fyers", "yfinance"} : Configured(tier) /\ symbol \notin asked[tier]}

\* C22: when the cycle has returned, every symbol of the universe that has no
\* record in the output was requested from every configured tier (nsetools
\* when initialized, the brokerage when configured, yfinance), wherever it
\* stands in the symbol list.
C22_DroppedOnlyAfterEveryTier ==
    (ReturnedNormally /\ fault = NoFault) =>
        \A k \in 1..Len(symbols) :
            symbols[k] \notin SymbolsOf(all_data.stock_data) => TiersNotAttempted(symbols[k]) = {}

\* the records the futures return, concatenated in submission order
RECURSIVE CollectedInSubmissionOrder(_)
CollectedInSubmissionOrder(n) ==
    IF n = 0 THEN <<>>
    ELSE LET future == Futures(symbols)[n]
         IN  CollectedInSubmissionOrder(n - 1)
             \o (IF future.source = "Fyers"
                 THEN FyersGetStockData(future.chunk, fyers_configured).records
                 ELSE NSEGetStockData(future.chunk, TRUE, nse_initialized, market.nsetools,
                                      market.yfinance, {}).records)

\* the pre-open records of the universe
SproutsOfUniverse ==
    LET InUniverse(d) == d.symbol \in Range(symbols) IN SelectSeq(market.sprouts, InUniverse)

\* C29: whatever the order in which the futures complete, the consolidated
\* record of every symbol is the one obtained when the futures complete in
\* submission order: same field values, same source string.
C29_CompletionOrderIrrelevant ==
    (ReturnedNormally /\ fault = NoFault) =>
        Range(all_data.stock_data) =
            Range(MergeDuplicateStocks(
                      CollectedInSubmissionOrder(Len(Futures(symbols))) \o SproutsOfUniverse))

\* the pre-open records of this cycle whose previous-day values are the
\* fixed-ratio estimates of _parse_comprehensive_data (no historical data)
EstimatedRecords ==
    IF market.sprouts = SproutsRecords(symbols) THEN Range(market.sprouts) ELSE {}

\* the tags carried by records whose previous-day values came from a
\* historical-range call
TagsOfSourcedData ==
    {SproutsEnhancedQuote(symbols[k]).source : k \in 1..Len(symbols)}
    \cup {YFinanceQuote(symbols[k]).source : k \in 1..Len(symbols)}

\* C24: no record collected for the filter whose prev_day_high is the
\* fixed-ratio estimate carries a source tag that records with historical
\* previous-day values carry too.
C24_EstimatesTaggedApart ==
    \A k \in 1..Len(all_stock_data) :
        all_stock_data[k] \in EstimatedRecords => all_stock_data[k].source \notin TagsOfSourcedData

\* the latest _establish_robust_session call ran its strategies
StrategiesRan ==
    /\ last_establish.called
    /\ ~(last_establish.had_session /\ last_establish.elapsed < 300)

\* C27: a call that runs the strategies requests the landing page first, then
\* the alternate entry URLs in their listed order, then the direct API
\* warm-up; it stops at the first strategy the website lets through and
\* returns true, returns false only after the landing page, all entry URLs
\* and the warm-up have failed, and makes one pass at most.
C27_StrategiesInOrder ==
    StrategiesRan =>
        LET requests == last_establish.requests
            visited == SubSeq(requests, 2, Len(requests) - 1)
            first == last_establish.outcome
        IN  /\ requests[1] = "homepage"
            /\ visited = SubSeq(EntryPoints, 1, Len(visited))
            /\ Len(visited) = (IF first = 0 THEN 0 ELSE Min(first, Len(EntryPoints)))
            /\ last_establish.result = (first # 6)
            /\ first > Len(EntryPoints) => requests[Len(requests)] = "/api/allIndices"
            /\ Len(requests) <= Len(EntryPoints) + 2

\* the landing page failed and the second entry URL succeeded: two entry URLs
\* were visited, the other two were not
C27_Witness ==
    /\ StrategiesRan
    /\ last_establish.outcome = 2
    /\ last_establish.result
    /\ last_establish.requests =
           <<"homepage", "/", "/market-data/live-equity-market", "/api/equity-stockIndices">>

\* C28: every step in which _establish_robust_session returns true leaves
\* cookies_established set and last_session_time such that a call at the same
\* time returns true without a request.
C28_TrueMeansRecorded ==
    [][ (/\ session_pc \in {"get_fo_stocks_robust", "get_stock_data_robust"}
         /\ session_pc' # session_pc
         /\ last_establish'.result)
        => SessionFresh(cookies_established', last_session_time', clock') ]_vars

\* the symbols a yfinance client without failed symbols is asked for in this cycle
RECURSIVE AskedOfFreshFallback(_)
AskedOfFreshFallback(n) ==
    IF n = 0 THEN {}
    ELSE LET future == Futures(symbols)[n]
         IN  AskedOfFreshFallback(n - 1)
             \cup (IF future.source = "NSE"
                   THEN NSEGetStockData(future.chunk, TRUE, nse_initialized, market.nsetools,
                                        market.yfinance, {}).asked_yfinance
                   ELSE {})

\* C21: in every scan, the first and the later ones, the fallback source is
\* asked for exactly the symbols it would be asked for had no scan run
\* before: a symbol that failed there in an earlier scan is asked for again.
C21_NoCrossCycleState ==
    cycle_pc = "done" => asked.yfinance = AskedOfFreshFallback(Len(Futures(symbols)))

\* a comparison inside _assess_data_quality or _calculate_filter_score raises
ScoringRaises(d) == ComparisonRaises(d, {"prev_day_high", "volume", "total_oi"})

\* d is valid, converts, passes the gate and is scored without an exception
Qualifies(d) ==
    /\ FilterValidate(d)
    /\ ~ConversionRaises(d, {"open_price", "ltp", "prev_close", "prev_day_high", "volume"})
    /\ ~ScoringRaises(d)
    /\ ~NoPrevDayHigh(d)
    /\ PassesGate(d)

\* C23: filter_stocks returns a list; a record whose scoring or quality
\* assessment raises is absent from it, and every other qualifying record of
\* the input is in it
C23_ScoringFailureSkipsRecord ==
    Done("filter_stocks") =>
        \A i \in 1..Len(stock_data) :
            /\ ScoringRaises(stock_data[i]) => stock_data[i].symbol \notin SymbolsOf(returned)
            /\ Qualifies(stock_data[i]) => stock_data[i].symbol \in SymbolsOf(returned)

\* the fields the output contract names
OutputFields ==
    {"symbol", "open_price", "ltp", "prev_close", "prev_day_high", "percentage_change",
     "gap_up_percentage", "volume", "total_oi", "change_in_oi", "data_quality",
     "filter_score", "source", "filter_timestamp"}

\* C25: every record filter_stocks returns carries all fourteen fields of the
\* output contract, whatever optional fields its input record lacked
C25_AllOutputFields ==
    Done("filter_stocks") =>
        \A i \in 1..Len(returned) : OutputFields \subseteq DOMAIN returned[i]

\* C30: after every call of filter_stocks, FilterAgent.filtered_stocks (what
\* get_filtered_stocks returns) is the list that call returned
C30_StoredIsLastReturned ==
    Done("filter_stocks") => filtered_stocks = returned

\* d carries the output field names of a Filtered Candidate
IsFilteredCandidate(d) ==
    {"open_price", "ltp", "prev_day_high", "percentage_change"} \subseteq DOMAIN d

\* C26: every Filtered Candidate handed to log_signals is stored, and the
\* stored signal's open_price, ltp, prev_day_high and percentage_change are
\* the candidate's fields of the same names
C26_CandidateStoredByFieldNames ==
    Done("log_signals") =>
        \A i \in 1..Len(stock_data) :
            IsFilteredCandidate(stock_data[i]) =>
                \E j \in 1..Len(returned) :
                    /\ returned[j].symbol = stock_data[i].symbol
                    /\ \A field \in {"open_price", "ltp", "prev_day_high", "percentage_change"} :
                           returned[j][field] = stock_data[i][field]

====
